---------------------------- MODULE Spec2Model ----------------------------
(***************************************************************************)
(* WASM Invaders (src/wasminvaders/src/main.c): the frame-tick simulation. *)
(* The host calls start() once and then update() once per frame; before    *)
(* each frame it writes the gamepad and mouse registers.  One step of the  *)
(* model is one call of update().                                          *)
(***************************************************************************)
EXTENDS Integers, Sequences, FiniteSets, TLC

VARIABLES
    player,                     \* Player player          [x, y]
    player_bullet,              \* Bullet player_bullet   [x, y, active]
    aliens,                     \* Alien aliens[48]       [x, y, alive]
    stars,                      \* Star stars[50]         [x, y, speed]
    game_state,
    alien_direction,
    alien_timer,
    current_alien_move_delay,
    score,
    random_seed,
    aliens_left,
    current_wave,
    current_alien_rows,
    current_alien_cols,
    explosions,                 \* Explosion explosions[48] [x, y, life, active]
    current_jingle_note_index,
    jingle_note_timer,
    playing_wave_jingle,
    gamepad,                    \* *GAMEPAD1 as read by the last frame (set of buttons)
    mouse,                      \* *MOUSE_BUTTONS as read by the last frame
    tones,                      \* the tone() calls of the last frame, in order
    frame,                      \* number of update() calls so far
    plan,                       \* the player: "none", "aim", "hold" or "away"
    games,                      \* number of games started
    idle                        \* menu frames left alone since the menu was entered

vars == <<player, player_bullet, aliens, stars, game_state, alien_direction,
          alien_timer, current_alien_move_delay, score, random_seed,
          aliens_left, current_wave, current_alien_rows, current_alien_cols,
          explosions, current_jingle_note_index, jingle_note_timer,
          playing_wave_jingle, gamepad, mouse, tones, frame, plan, games, idle>>

---------------------------------------------------------------------------
(* Program constants.                                                     *)

NOTE_C5 == 523
NOTE_E5 == 659
NOTE_G5 == 784
NOTE_C6 == 1047
NOTE_REST == 0
DURATION_HALF == 30
DURATION_QUARTER == 15
DURATION_EIGHTH == 7
PLAYER_SPEED == 2
BULLET_SPEED == 4
ALIEN_COLS == 8
ALIEN_ROWS == 6
TOTAL_ALIENS == ALIEN_COLS * ALIEN_ROWS
STAR_COUNT == 50
GAME_STATE_MENU == 0
GAME_STATE_PLAYING == 1
EXPLOSION_DURATION == 10

\* The host's bit masks and waveform flags (wasm4.h) are kept symbolic: a
\* register is the set of the bits that are set in it.
BUTTON_1 == "BUTTON_1"
BUTTON_LEFT == "BUTTON_LEFT"
BUTTON_RIGHT == "BUTTON_RIGHT"
MOUSE_BUTTON_LEFT == "MOUSE_BUTTON_LEFT"
TONE_PULSE1 == "TONE_PULSE1"
TONE_TRIANGLE == "TONE_TRIANGLE"
TONE_NOISE == "TONE_NOISE"

AlienSlots == 0 .. TOTAL_ALIENS - 1
StarSlots == 0 .. STAR_COUNT - 1

\* int wave_jingle_melody[] (0-based in the source, 1-based here)
wave_jingle_melody ==
    << NOTE_C5, DURATION_EIGHTH,
       NOTE_E5, DURATION_EIGHTH,
       NOTE_G5, DURATION_QUARTER,
       NOTE_C6, DURATION_HALF,
       NOTE_REST, DURATION_EIGHTH >>
wave_jingle_length == Len(wave_jingle_melody)

\* a tone() call
Tone(frequency, duration, volume, flags) ==
    [frequency |-> frequency, duration |-> duration, volume |-> volume, flags |-> flags]

---------------------------------------------------------------------------
(* random_int: the seed is a uint32_t; the product is taken modulo 2^32    *)
(* and masked with 0x7fffffff, which is the product modulo 2^31.  The      *)
(* product is computed on 16-bit halves so that no intermediate value      *)
(* leaves the 32-bit range.                                                *)

Pow15 == 32768
Pow16 == 65536
LcgMulHi == 16838        \* 1103515245 = 16838 * 2^16 + 20077
LcgMulLo == 20077
LcgInc == 12345

\* (seed * 1103515245 + 12345) & 0x7fffffff
lcg_next(seed) ==
    LET sh == seed \div Pow16
        sl == seed % Pow16
        lo == sl * LcgMulLo
        cross == (sh * LcgMulLo + sl * LcgMulHi) % Pow15
        hi == ((lo \div Pow16) + cross) % Pow15
        prod == hi * Pow16 + (lo % Pow16)              \* seed * a mod 2^31
        lo2 == (prod % Pow16) + LcgInc
        hi2 == ((prod \div Pow16) + (lo2 \div Pow16)) % Pow15
    IN  hi2 * Pow16 + (lo2 % Pow16)

\* random_int taking the remainder by max - min, one short of the range
random_int_narrow(seed, min, max) ==
    LET s == lcg_next(seed)
    IN  [seed |-> s, value |-> min + (s % (max - min))]

\* random_int(min, max): the new seed and the value returned
random_int(seed, min, max) ==
    LET s == lcg_next(seed)
    IN  [seed |-> s, value |-> min + (s % (max - min + 1))]

minimum(a, b) == IF a < b THEN a ELSE b

---------------------------------------------------------------------------
(* The globals as one record, and the functions of main.c on it.          *)

State ==
    [player |-> player, player_bullet |-> player_bullet, aliens |-> aliens,
     stars |-> stars, game_state |-> game_state,
     alien_direction |-> alien_direction, alien_timer |-> alien_timer,
     current_alien_move_delay |-> current_alien_move_delay, score |-> score,
     random_seed |-> random_seed, aliens_left |-> aliens_left,
     current_wave |-> current_wave, current_alien_rows |-> current_alien_rows,
     current_alien_cols |-> current_alien_cols, explosions |-> explosions,
     current_jingle_note_index |-> current_jingle_note_index,
     jingle_note_timer |-> jingle_note_timer,
     playing_wave_jingle |-> playing_wave_jingle, tones |-> tones]

\* The globals when the cartridge is loaded: the initializers of the
\* declarations, zero for everything declared without one.
Loaded ==
    [player |-> [x |-> 0, y |-> 0],
     player_bullet |-> [x |-> 0, y |-> 0, active |-> FALSE],
     aliens |-> [i \in AlienSlots |-> [x |-> 0, y |-> 0, alive |-> FALSE]],
     stars |-> [i \in StarSlots |-> [x |-> 0, y |-> 0, speed |-> 0]],
     game_state |-> 0,
     alien_direction |-> 1, alien_timer |-> 20,
     current_alien_move_delay |-> 20, score |-> 0,
     random_seed |-> 1, aliens_left |-> 0,
     current_wave |-> 1, current_alien_rows |-> 0,
     current_alien_cols |-> 0,
     explosions |-> [i \in AlienSlots |-> [x |-> 0, y |-> 0, life |-> 0, active |-> FALSE]],
     current_jingle_note_index |-> 0,
     jingle_note_timer |-> 0,
     playing_wave_jingle |-> FALSE, tones |-> << >>]

\* init_stars: three random_int calls per star, in the order written.
RECURSIVE init_stars_from(_, _)
init_stars_from(i, s) ==
    IF i >= STAR_COUNT THEN s
    ELSE LET rx == random_int(s.random_seed, 0, 159)
             ry == random_int(rx.seed, 0, 159)
             rs == random_int(ry.seed, 1, 3)
         IN  init_stars_from(i + 1,
                 [s EXCEPT !.stars[i] = [x |-> rx.value, y |-> ry.value, speed |-> rs.value],
                           !.random_seed = rs.seed])

init_stars(s) == init_stars_from(0, s)

\* init_aliens: clamp the formation, place rows * cols live aliens, then mark
\* the slots from index aliens_left on as dead (their x, y are left as they are).
init_aliens(s) ==
    LET rows == IF s.current_alien_rows > ALIEN_ROWS THEN ALIEN_ROWS ELSE s.current_alien_rows
        cols == IF s.current_alien_cols > ALIEN_COLS THEN ALIEN_COLS ELSE s.current_alien_cols
        left == IF rows > 0 /\ cols > 0 THEN rows * cols ELSE 0
        placed == [i \in AlienSlots |->
                     IF (i \div ALIEN_COLS) < rows /\ (i % ALIEN_COLS) < cols
                     THEN [x |-> 20 + (i % ALIEN_COLS) * 12,
                           y |-> 20 + (i \div ALIEN_COLS) * 12,
                           alive |-> TRUE]
                     ELSE s.aliens[i]]
    IN  [s EXCEPT !.current_alien_rows = rows,
                  !.current_alien_cols = cols,
                  !.aliens_left = left,
                  !.aliens = [i \in AlienSlots |->
                                IF i >= left THEN [placed[i] EXCEPT !.alive = FALSE]
                                ELSE placed[i]]]

\* create_explosion giving the explosion one frame less to live
create_explosion_short(s, x, y) ==
    LET free == {i \in AlienSlots : ~s.explosions[i].active}
    IN  IF free = {} THEN s
        ELSE LET i == CHOOSE j \in free : \A k \in free : j <= k
             IN  [s EXCEPT !.explosions[i] =
                     [x |-> x, y |-> y, life |-> EXPLOSION_DURATION - 1, active |-> TRUE]]

\* create_explosion: the first inactive slot, if there is one
create_explosion(s, x, y) ==
    LET free == {i \in AlienSlots : ~s.explosions[i].active}
    IN  IF free = {} THEN s
        ELSE LET i == CHOOSE j \in free : \A k \in free : j <= k
             IN  [s EXCEPT !.explosions[i] =
                     [x |-> x, y |-> y, life |-> EXPLOSION_DURATION, active |-> TRUE]]

\* start()
start(s) ==
    LET s1 == init_stars(s)
        s2 == init_aliens([s1 EXCEPT !.current_wave = 1,
                                     !.current_alien_rows = 1,
                                     !.current_alien_cols = ALIEN_COLS])
    IN  [s2 EXCEPT !.player = [x |-> 76, y |-> 140],
                   !.player_bullet.active = FALSE,
                   !.game_state = GAME_STATE_MENU,
                   !.explosions = [i \in AlienSlots |-> [s2.explosions[i] EXCEPT !.active = FALSE]],
                   !.current_alien_move_delay = 20,
                   !.alien_timer = 20]

\* draw_background_stars: every star falls by min(speed, 2); a star whose y
\* has become greater than 160 restarts at y = 0 with a new random x.
RECURSIVE draw_background_stars_from(_, _)
draw_background_stars_from(i, b) ==
    IF i >= STAR_COUNT THEN b
    ELSE LET y1 == b.stars[i].y + minimum(b.stars[i].speed, 2)
             r == random_int(b.random_seed, 0, 159)
             next == IF y1 > 160
                     THEN [stars |-> [b.stars EXCEPT ![i].y = 0, ![i].x = r.value],
                           random_seed |-> r.seed]
                     ELSE [stars |-> [b.stars EXCEPT ![i].y = y1],
                           random_seed |-> b.random_seed]
         IN  CHOOSE done \in {draw_background_stars_from(i + 1, b1) : b1 \in {next}} : TRUE

draw_background_stars(s) ==
    LET b == draw_background_stars_from(0, [stars |-> s.stars, random_seed |-> s.random_seed])
    IN  [s EXCEPT !.stars = b.stars, !.random_seed = b.random_seed]

\* play_wave_jingle moving the cursor by one entry of the array instead of a pair
play_wave_jingle_single(s) ==
    IF ~s.playing_wave_jingle THEN s
    ELSE IF s.jingle_note_timer > 0
    THEN [s EXCEPT !.jingle_note_timer = s.jingle_note_timer - 1]
    ELSE IF s.current_jingle_note_index < wave_jingle_length
    THEN LET frequency == wave_jingle_melody[s.current_jingle_note_index + 1]
             duration_frames == wave_jingle_melody[s.current_jingle_note_index + 2]
         IN  [s EXCEPT !.tones = IF frequency # NOTE_REST
                                 THEN Append(s.tones, Tone(frequency, duration_frames, 100, TONE_TRIANGLE))
                                 ELSE s.tones,
                       !.jingle_note_timer = duration_frames,
                       !.current_jingle_note_index = s.current_jingle_note_index + 1]
    ELSE [s EXCEPT !.playing_wave_jingle = FALSE,
                   !.tones = Append(s.tones, Tone(0, 0, 0, 0))]

\* play_wave_jingle counting one frame less than the note's duration
play_wave_jingle_hurried(s) ==
    IF ~s.playing_wave_jingle THEN s
    ELSE IF s.jingle_note_timer > 0
    THEN [s EXCEPT !.jingle_note_timer = s.jingle_note_timer - 1]
    ELSE IF s.current_jingle_note_index < wave_jingle_length
    THEN LET frequency == wave_jingle_melody[s.current_jingle_note_index + 1]
             duration_frames == wave_jingle_melody[s.current_jingle_note_index + 2]
         IN  [s EXCEPT !.tones = IF frequency # NOTE_REST
                                 THEN Append(s.tones, Tone(frequency, duration_frames, 100, TONE_TRIANGLE))
                                 ELSE s.tones,
                       !.jingle_note_timer = duration_frames - 1,
                       !.current_jingle_note_index = s.current_jingle_note_index + 2]
    ELSE [s EXCEPT !.playing_wave_jingle = FALSE,
                   !.tones = Append(s.tones, Tone(0, 0, 0, 0))]

\* play_wave_jingle
play_wave_jingle(s) ==
    IF ~s.playing_wave_jingle THEN s
    ELSE IF s.jingle_note_timer > 0
    THEN [s EXCEPT !.jingle_note_timer = s.jingle_note_timer - 1]
    ELSE IF s.current_jingle_note_index < wave_jingle_length
    THEN LET frequency == wave_jingle_melody[s.current_jingle_note_index + 1]
             duration_frames == wave_jingle_melody[s.current_jingle_note_index + 2]
         IN  [s EXCEPT !.tones = IF frequency # NOTE_REST
                                 THEN Append(s.tones, Tone(frequency, duration_frames, 100, TONE_TRIANGLE))
                                 ELSE s.tones,
                       !.jingle_note_timer = duration_frames,
                       !.current_jingle_note_index = s.current_jingle_note_index + 2]
    ELSE [s EXCEPT !.playing_wave_jingle = FALSE,
                   !.tones = Append(s.tones, Tone(0, 0, 0, 0))]

\* update_player without the clamp at the right edge
update_player_unclamped(s, pad) ==
    LET x1 == IF BUTTON_LEFT \in pad THEN s.player.x - PLAYER_SPEED ELSE s.player.x
        x2 == IF BUTTON_RIGHT \in pad THEN x1 + PLAYER_SPEED ELSE x1
        x3 == IF x2 < 0 THEN 0 ELSE x2
    IN  IF BUTTON_1 \in pad /\ ~s.player_bullet.active
        THEN [s EXCEPT !.player.x = x3,
                       !.player_bullet = [x |-> x3 + 3, y |-> s.player.y, active |-> TRUE],
                       !.tones = Append(s.tones, Tone(1000, 10, 50, TONE_PULSE1))]
        ELSE [s EXCEPT !.player.x = x3]

\* update_player firing whenever BUTTON_1 is held, bullet in flight or not
update_player_refires(s, pad) ==
    LET x1 == IF BUTTON_LEFT \in pad THEN s.player.x - PLAYER_SPEED ELSE s.player.x
        x2 == IF BUTTON_RIGHT \in pad THEN x1 + PLAYER_SPEED ELSE x1
        x3 == IF x2 < 0 THEN 0 ELSE x2
        x4 == IF x3 > 160 - 8 THEN 160 - 8 ELSE x3
    IN  IF BUTTON_1 \in pad
        THEN [s EXCEPT !.player.x = x4,
                       !.player_bullet = [x |-> x4 + 3, y |-> s.player.y, active |-> TRUE],
                       !.tones = Append(s.tones, Tone(1000, 10, 50, TONE_PULSE1))]
        ELSE [s EXCEPT !.player.x = x4]

\* update_player(gamepad)
update_player(s, pad) ==
    LET x1 == IF BUTTON_LEFT \in pad THEN s.player.x - PLAYER_SPEED ELSE s.player.x
        x2 == IF BUTTON_RIGHT \in pad THEN x1 + PLAYER_SPEED ELSE x1
        x3 == IF x2 < 0 THEN 0 ELSE x2
        x4 == IF x3 > 160 - 8 THEN 160 - 8 ELSE x3
    IN  IF BUTTON_1 \in pad /\ ~s.player_bullet.active
        THEN [s EXCEPT !.player.x = x4,
                       !.player_bullet = [x |-> x4 + 3, y |-> s.player.y, active |-> TRUE],
                       !.tones = Append(s.tones, Tone(1000, 10, 50, TONE_PULSE1))]
        ELSE [s EXCEPT !.player.x = x4]

\* update_player_bullet letting the bullet live one step above the screen
update_player_bullet_late(s) ==
    IF s.player_bullet.active
    THEN LET y1 == s.player_bullet.y - BULLET_SPEED
         IN  [s EXCEPT !.player_bullet.y = y1,
                       !.player_bullet.active = ~(y1 < -4)]
    ELSE s

\* update_player_bullet
update_player_bullet(s) ==
    IF s.player_bullet.active
    THEN LET y1 == s.player_bullet.y - BULLET_SPEED
         IN  [s EXCEPT !.player_bullet.y = y1,
                       !.player_bullet.active = ~(y1 < 0)]
    ELSE s

\* the edge test of update_aliens looking at dead aliens as well
move_down_any(s) ==
    \E i \in AlienSlots :
        \/ (s.aliens[i].x >= 160 - 8 /\ s.alien_direction > 0)
        \/ (s.aliens[i].x <= 0 /\ s.alien_direction < 0)

\* the edge test of update_aliens: some alive alien at the edge it moves to
move_down(s) ==
    \E i \in AlienSlots :
        /\ s.aliens[i].alive
        /\ \/ (s.aliens[i].x >= 160 - 8 /\ s.alien_direction > 0)
           \/ (s.aliens[i].x <= 0 /\ s.alien_direction < 0)

\* update_aliens stepping one frame after the timer reached zero
update_aliens_late(s) ==
    LET timer == s.alien_timer - 1
    IN  IF timer < 0
        THEN LET t == [s EXCEPT !.alien_timer = s.current_alien_move_delay]
             IN  IF move_down(t)
                 THEN [t EXCEPT !.alien_direction = -1 * t.alien_direction,
                                !.aliens = [i \in AlienSlots |->
                                              [t.aliens[i] EXCEPT !.y = @ + 5]]]
                 ELSE [t EXCEPT !.aliens = [i \in AlienSlots |->
                                              [t.aliens[i] EXCEPT !.x = @ + t.alien_direction * 5]]]
        ELSE [s EXCEPT !.alien_timer = timer]

\* update_aliens turning at the edge without stepping down
update_aliens_level(s) ==
    LET timer == s.alien_timer - 1
    IN  IF timer <= 0
        THEN LET t == [s EXCEPT !.alien_timer = s.current_alien_move_delay]
             IN  IF move_down(t)
                 THEN [t EXCEPT !.alien_direction = -1 * t.alien_direction]
                 ELSE [t EXCEPT !.aliens = [i \in AlienSlots |->
                                              [t.aliens[i] EXCEPT !.x = @ + t.alien_direction * 5]]]
        ELSE [s EXCEPT !.alien_timer = timer]

\* update_aliens
update_aliens(s) ==
    LET timer == s.alien_timer - 1
    IN  IF timer <= 0
        THEN LET t == [s EXCEPT !.alien_timer = s.current_alien_move_delay]
             IN  IF move_down(t)
                 THEN [t EXCEPT !.alien_direction = -1 * t.alien_direction,
                                !.aliens = [i \in AlienSlots |->
                                              [t.aliens[i] EXCEPT !.y = @ + 5]]]
                 ELSE [t EXCEPT !.aliens = [i \in AlienSlots |->
                                              [t.aliens[i] EXCEPT !.x = @ + t.alien_direction * 5]]]
        ELSE [s EXCEPT !.alien_timer = timer]

\* update_explosions that ages an explosion and never frees its slot
update_explosions_stuck(s) ==
    [s EXCEPT !.explosions = [i \in AlienSlots |->
        IF s.explosions[i].active
        THEN [s.explosions[i] EXCEPT !.life = @ - 1]
        ELSE s.explosions[i]]]

\* update_explosions keeping an explosion for one frame after its life ran out
update_explosions_late(s) ==
    [s EXCEPT !.explosions = [i \in AlienSlots |->
        IF s.explosions[i].active
        THEN [s.explosions[i] EXCEPT !.life = @ - 1,
                                     !.active = ~(s.explosions[i].life - 1 < 0)]
        ELSE s.explosions[i]]]

\* update_explosions
update_explosions(s) ==
    [s EXCEPT !.explosions = [i \in AlienSlots |->
        IF s.explosions[i].active
        THEN [s.explosions[i] EXCEPT !.life = @ - 1,
                                     !.active = ~(s.explosions[i].life - 1 <= 0)]
        ELSE s.explosions[i]]]

\* the overlap test of check_collisions: the bullet's 2x4 box and alien i's 8x8 box
bullet_hits(s, i) ==
    LET a_x == s.aliens[i].x   a_y == s.aliens[i].y   a_w == 8   a_h == 8
        b_x == s.player_bullet.x   b_y == s.player_bullet.y   b_w == 2   b_h == 4
    IN  b_x < a_x + a_w /\ b_x + b_w > a_x /\ b_y < a_y + a_h /\ b_y + b_h > a_y

\* check_collisions forgetting to count the alien it kills
check_collisions_keeps_count(s) ==
    IF ~s.player_bullet.active THEN s
    ELSE LET hit == {i \in AlienSlots : s.aliens[i].alive /\ bullet_hits(s, i)}
         IN  IF hit = {} THEN s
             ELSE LET i == CHOOSE j \in hit : \A k \in hit : j <= k
                      s1 == create_explosion([s EXCEPT !.aliens[i].alive = FALSE],
                                             s.aliens[i].x, s.aliens[i].y)
                  IN  [s1 EXCEPT !.player_bullet.active = FALSE,
                                 !.score = s.score + 10,
                                 !.tones = Append(s.tones, Tone(200, 15, 80, TONE_NOISE))]

\* check_collisions: the first alive alien the bullet overlaps dies
check_collisions(s) ==
    IF ~s.player_bullet.active THEN s
    ELSE LET hit == {i \in AlienSlots : s.aliens[i].alive /\ bullet_hits(s, i)}
         IN  IF hit = {} THEN s
             ELSE LET i == CHOOSE j \in hit : \A k \in hit : j <= k
                      s1 == create_explosion([s EXCEPT !.aliens[i].alive = FALSE],
                                             s.aliens[i].x, s.aliens[i].y)
                  IN  [s1 EXCEPT !.player_bullet.active = FALSE,
                                 !.score = s.score + 10,
                                 !.aliens_left = s.aliens_left - 1,
                                 !.tones = Append(s.tones, Tone(200, 15, 80, TONE_NOISE))]

\* next_wave without the floor of the move delay
next_wave_unclamped(s) ==
    LET wave == s.current_wave + 1
        delay == 20 - (wave * 3)
        rows == IF (wave + 1) \div 2 > ALIEN_ROWS THEN ALIEN_ROWS ELSE (wave + 1) \div 2
        s1 == init_aliens([s EXCEPT !.current_wave = wave,
                                    !.current_alien_move_delay = delay,
                                    !.alien_timer = delay,
                                    !.current_alien_cols = ALIEN_COLS,
                                    !.current_alien_rows = rows])
    IN  [s1 EXCEPT !.alien_direction = 1,
                   !.current_jingle_note_index = 0,
                   !.jingle_note_timer = 0,
                   !.playing_wave_jingle = TRUE]

\* next_wave adding a row every wave
next_wave_row_per_wave(s) ==
    LET wave == s.current_wave + 1
        delay == IF 20 - (wave * 3) < 5 THEN 4 ELSE 20 - (wave * 3)
        rows == IF wave > ALIEN_ROWS THEN ALIEN_ROWS ELSE wave
        s1 == init_aliens([s EXCEPT !.current_wave = wave,
                                    !.current_alien_move_delay = delay,
                                    !.alien_timer = delay,
                                    !.current_alien_cols = ALIEN_COLS,
                                    !.current_alien_rows = rows])
    IN  [s1 EXCEPT !.alien_direction = 1,
                   !.current_jingle_note_index = 0,
                   !.jingle_note_timer = 0,
                   !.playing_wave_jingle = TRUE]

\* next_wave
next_wave(s) ==
    LET wave == s.current_wave + 1
        delay == IF 20 - (wave * 3) < 5 THEN 4 ELSE 20 - (wave * 3)
        rows == IF (wave + 1) \div 2 > ALIEN_ROWS THEN ALIEN_ROWS ELSE (wave + 1) \div 2
        s1 == init_aliens([s EXCEPT !.current_wave = wave,
                                    !.current_alien_move_delay = delay,
                                    !.alien_timer = delay,
                                    !.current_alien_cols = ALIEN_COLS,
                                    !.current_alien_rows = rows])
    IN  [s1 EXCEPT !.alien_direction = 1,
                   !.current_jingle_note_index = 0,
                   !.jingle_note_timer = 0,
                   !.playing_wave_jingle = TRUE]

\* the overlap test of check_player_collision looking at the columns only
player_hit_column(s, i) ==
    LET p_x == s.player.x   p_w == 8
        a_x == s.aliens[i].x   a_w == 8
    IN  p_x < a_x + a_w /\ p_x + p_w > a_x

\* the overlap test of check_player_collision: the player's box and alien i's box
player_hit(s, i) ==
    LET p_x == s.player.x   p_y == s.player.y   p_w == 8   p_h == 8
        a_x == s.aliens[i].x   a_y == s.aliens[i].y   a_w == 8   a_h == 8
    IN  p_x < a_x + a_w /\ p_x + p_w > a_x /\ p_y < a_y + a_h /\ p_y + p_h > a_y

\* check_player_collision leaving the score of the lost game in place
check_player_collision_keeps_score(s) ==
    IF \E i \in AlienSlots : s.aliens[i].alive /\ player_hit(s, i)
    THEN LET s1 == init_aliens([s EXCEPT !.game_state = GAME_STATE_MENU,
                                         !.tones = Append(s.tones, Tone(50, 60, 100, TONE_TRIANGLE))])
         IN  [s1 EXCEPT !.player.x = 76,
                        !.player_bullet.active = FALSE,
                        !.alien_timer = 20,
                        !.alien_direction = 1,
                        !.current_wave = 1,
                        !.current_alien_rows = 3,
                        !.current_alien_cols = ALIEN_COLS]
    ELSE s

\* check_player_collision: init_aliens() runs before current_alien_rows is
\* assigned, so the grid is rebuilt with the rows of the wave that was played.
check_player_collision(s) ==
    IF \E i \in AlienSlots : s.aliens[i].alive /\ player_hit(s, i)
    THEN LET s1 == init_aliens([s EXCEPT !.game_state = GAME_STATE_MENU,
                                         !.tones = Append(s.tones, Tone(50, 60, 100, TONE_TRIANGLE))])
         IN  [s1 EXCEPT !.player.x = 76,
                        !.player_bullet.active = FALSE,
                        !.score = 0,
                        !.alien_timer = 20,
                        !.alien_direction = 1,
                        !.current_wave = 1,
                        !.current_alien_rows = 3,
                        !.current_alien_cols = ALIEN_COLS]
    ELSE s

\* draw_explosions: six random_int calls for every active explosion; the
\* values only place rectangles, the seed is what remains
RECURSIVE lcg_iterate(_, _)
lcg_iterate(seed, n) == IF n <= 0 THEN seed ELSE lcg_iterate(lcg_next(seed), n - 1)

draw_explosions(s) ==
    [s EXCEPT !.random_seed =
        lcg_iterate(s.random_seed, 6 * Cardinality({i \in AlienSlots : s.explosions[i].active}))]

\* update_menu letting the aliens' timer run while the menu is shown
update_menu_ticks(s, pad, buttons) ==
    IF BUTTON_1 \in pad \/ MOUSE_BUTTON_LEFT \in buttons
    THEN LET s1 == init_aliens([s EXCEPT !.game_state = GAME_STATE_PLAYING])
         IN  [s1 EXCEPT !.score = 0,
                        !.player.x = 76,
                        !.player_bullet.active = FALSE]
    ELSE [s EXCEPT !.alien_timer = s.alien_timer - 1]

\* update_menu starting the game on BUTTON_1 only
update_menu_pad_only(s, pad, buttons) ==
    IF BUTTON_1 \in pad
    THEN LET s1 == init_aliens([s EXCEPT !.game_state = GAME_STATE_PLAYING])
         IN  [s1 EXCEPT !.score = 0,
                        !.player.x = 76,
                        !.player_bullet.active = FALSE]
    ELSE s

\* update_menu, with the registers it reads
update_menu(s, pad, buttons) ==
    IF BUTTON_1 \in pad \/ MOUSE_BUTTON_LEFT \in buttons
    THEN LET s1 == init_aliens([s EXCEPT !.game_state = GAME_STATE_PLAYING])
         IN  [s1 EXCEPT !.score = 0,
                        !.player.x = 76,
                        !.player_bullet.active = FALSE]
    ELSE s

\* the GAME_STATE_PLAYING case of update with the jingle player moved behind
\* the aliens_left test
update_playing_jingle_last(s, pad) ==
    LET s1 == update_player(s, pad)
        s2 == update_player_bullet(s1)
        s3 == update_aliens(s2)
        s4 == check_collisions(s3)
        s5 == check_player_collision(s4)
        s7 == update_explosions(s5)
        s8 == draw_explosions(s7)
    IN  play_wave_jingle(IF s8.aliens_left <= 0 THEN next_wave(s8) ELSE s8)

\* the GAME_STATE_PLAYING case of update calling next_wave one alien early
update_playing_early(s, pad) ==
    LET s1 == update_player(s, pad)
        s2 == update_player_bullet(s1)
        s3 == update_aliens(s2)
        s4 == check_collisions(s3)
        s5 == check_player_collision(s4)
        s6 == play_wave_jingle(s5)
        s7 == update_explosions(s6)
        s8 == draw_explosions(s7)
    IN  IF s8.aliens_left <= 1 THEN next_wave(s8) ELSE s8

\* the GAME_STATE_PLAYING case of update; each call works on the globals the
\* call before it left (s1 .. s8), bound as values
update_playing(s, pad) ==
    CHOOSE done \in
        {IF s8.aliens_left <= 0 THEN next_wave(s8) ELSE s8 :
           s8 \in {draw_explosions(s7) :
           s7 \in {update_explosions(s6) :
           s6 \in {play_wave_jingle(s5) :
           s5 \in {check_player_collision(s4) :
           s4 \in {check_collisions(s3) :
           s3 \in {update_aliens(s2) :
           s2 \in {update_player_bullet(s1) :
           s1 \in {update_player(s, pad)}}}}}}}}} : TRUE

\* update(), with the registers it reads; tones collects this frame's tone() calls
update(s, pad, buttons) ==
    CHOOSE done \in
        {IF s0.game_state = GAME_STATE_MENU THEN update_menu(s0, pad, buttons)
         ELSE IF s0.game_state = GAME_STATE_PLAYING THEN update_playing(s0, pad)
         ELSE s0 :
           s0 \in {draw_background_stars([s EXCEPT !.tones = << >>])}} : TRUE

---------------------------------------------------------------------------
(* The state machine: Init is the state start() leaves, a step is one     *)
(* update() with the registers the host has set for it.                   *)
(*                                                                         *)
(* The starfield and the seed never repeat, so every frame is a new state  *)
(* and the inputs have to be bounded.  The player is one of: "aim" (holds  *)
(* fire and steers under the lowest row of aliens, leading them), "hold"   *)
(* (keeps one set of buttons down for the rest of the game) or "away"      *)
(* (leaves the menu alone).  A plan is chosen when a game is started; an   *)
(* aiming player may let go of the pad at the start of a wave.             *)

MaxFrames == 6000        \* frames played by any player
MaxAimFrames == 12000    \* frames played by the aiming player in the first game
MaxMenuIdle == 2         \* frames a menu is left alone

\* what a holding player keeps down; a pad without BUTTON_1 starts the game
\* with the mouse
HeldPads == { {}, {BUTTON_1, BUTTON_LEFT}, {BUTTON_1, BUTTON_RIGHT},
              {BUTTON_LEFT, BUTTON_RIGHT} }

\* what the host may show to an idle menu frame
IdleInputs == { <<{}, {}>>, <<{BUTTON_LEFT}, {"MOUSE_BUTTON_RIGHT"}>> }

\* the aiming player's pad: fire, and steer towards the first alien of the
\* lowest row, nine pixels ahead of it
AimPad ==
    LET alive == {i \in AlienSlots : aliens[i].alive}
    IN  IF alive = {} THEN {BUTTON_1}
        ELSE LET t == CHOOSE i \in alive : \A k \in alive :
                          \/ aliens[k].y < aliens[i].y
                          \/ (aliens[k].y = aliens[i].y /\ i <= k)
                 want == aliens[t].x + 9 * alien_direction
             IN  {BUTTON_1}
                   \cup (IF player.x < want - 1 THEN {BUTTON_RIGHT} ELSE {})
                   \cup (IF ~(player.x < want - 1) /\ player.x > want + 1 THEN {BUTTON_LEFT} ELSE {})

\* next_wave ran in the last frame
WaveStart == playing_wave_jingle /\ current_jingle_note_index = 0

Init ==
    \E s \in {start(Loaded)} :
        /\ player = s.player
        /\ player_bullet = s.player_bullet
        /\ aliens = s.aliens
        /\ stars = s.stars
        /\ game_state = s.game_state
        /\ alien_direction = s.alien_direction
        /\ alien_timer = s.alien_timer
        /\ current_alien_move_delay = s.current_alien_move_delay
        /\ score = s.score
        /\ random_seed = s.random_seed
        /\ aliens_left = s.aliens_left
        /\ current_wave = s.current_wave
        /\ current_alien_rows = s.current_alien_rows
        /\ current_alien_cols = s.current_alien_cols
        /\ explosions = s.explosions
        /\ current_jingle_note_index = s.current_jingle_note_index
        /\ jingle_note_timer = s.jingle_note_timer
        /\ playing_wave_jingle = s.playing_wave_jingle
        /\ tones = s.tones
        /\ gamepad = {}
        /\ mouse = {}
        /\ frame = 0
        /\ plan = "none"
        /\ games = 0
        /\ idle = 0

\* one call of update() with GAMEPAD1 = pad and MOUSE_BUTTONS = buttons
Frame(pad, buttons) ==
    \E s \in {update(State, pad, buttons)} :
        /\ gamepad' = pad
        /\ mouse' = buttons
        /\ frame' = frame + 1
        /\ player' = s.player
        /\ player_bullet' = s.player_bullet
        /\ aliens' = s.aliens
        /\ stars' = s.stars
        /\ game_state' = s.game_state
        /\ alien_direction' = s.alien_direction
        /\ alien_timer' = s.alien_timer
        /\ current_alien_move_delay' = s.current_alien_move_delay
        /\ score' = s.score
        /\ random_seed' = s.random_seed
        /\ aliens_left' = s.aliens_left
        /\ current_wave' = s.current_wave
        /\ current_alien_rows' = s.current_alien_rows
        /\ current_alien_cols' = s.current_alien_cols
        /\ explosions' = s.explosions
        /\ current_jingle_note_index' = s.current_jingle_note_index
        /\ jingle_note_timer' = s.jingle_note_timer
        /\ playing_wave_jingle' = s.playing_wave_jingle
        /\ tones' = s.tones

\* a menu frame that starts a game: BUTTON_1, or the left mouse button
MenuStart ==
    /\ game_state = GAME_STATE_MENU
    /\ frame < MaxFrames
    /\ plan # "away"
    /\ \/ /\ Frame({BUTTON_1}, {})
          /\ plan' = "aim"
       \/ \E pad \in HeldPads :
             /\ Frame(pad, IF BUTTON_1 \in pad THEN {} ELSE {MOUSE_BUTTON_LEFT})
             /\ plan' = "hold"
    /\ games' = games + 1
    /\ idle' = 0

\* a menu frame with neither BUTTON_1 nor the left mouse button
MenuIdle ==
    /\ game_state = GAME_STATE_MENU
    /\ frame < MaxFrames
    /\ idle < MaxMenuIdle
    /\ \E in \in IdleInputs : Frame(in[1], in[2])
    /\ plan' = "away"
    /\ idle' = idle + 1
    /\ games' = games

\* a frame of play
PlayingFrame ==
    /\ game_state = GAME_STATE_PLAYING
    /\ \/ frame < MaxFrames
       \/ (plan = "aim" /\ games = 1 /\ frame < MaxAimFrames)
    /\ \/ /\ plan = "aim"
          /\ Frame(AimPad, {})
          /\ plan' = "aim"
       \/ /\ plan = "aim" /\ WaveStart /\ frame < MaxFrames
          /\ Frame({}, {})
          /\ plan' = "hold"
       \/ /\ plan = "hold"
          /\ Frame(gamepad, {})
          /\ plan' = "hold"
    /\ games' = games
    /\ idle' = 0

Next == MenuStart \/ MenuIdle \/ PlayingFrame

Spec == Init /\ [][Next]_vars

---------------------------------------------------------------------------
(* Vocabulary of the properties.  The events of a frame are read off the  *)
(* tones it emitted and off the registers it was given; the boxes are     *)
(* written out as the claims state them.                                  *)

Emitted(t) == \E k \in 1 .. Len(tones) : tones[k] = t
ShotTone == Tone(1000, 10, 50, TONE_PULSE1)
KillTone == Tone(200, 15, 80, TONE_NOISE)
GameOverTone == Tone(50, 60, 100, TONE_TRIANGLE)

AliveCount == Cardinality({i \in AlienSlots : aliens[i].alive})

\* an alive alien's 8x8 box overlaps the player's 8x8 box, in globals s
Contact(s) ==
    \E i \in AlienSlots :
        /\ s.aliens[i].alive
        /\ s.player.x < s.aliens[i].x + 8
        /\ s.player.x + 8 > s.aliens[i].x
        /\ s.player.y < s.aliens[i].y + 8
        /\ s.player.y + 8 > s.aliens[i].y

\* the globals at the moment check_player_collision runs in the frame that
\* is played from the current state with the pad of the next state
AtPlayerCollision(pad) ==
    check_collisions(update_aliens(update_player_bullet(
        update_player(draw_background_stars(State), pad))))

\* that moment finds an alive alien's box over the player's box
ContactInFrame ==
    \E pad \in {gamepad'} : \E m \in {AtPlayerCollision(pad)} : Contact(m)

\* exactly the slots of rows 0 .. rows-1 are alive, each at its home position
HomeGrid(rows) ==
    \A i \in AlienSlots :
        IF i \div 8 < rows
        THEN aliens[i] = [x |-> 20 + 12 * (i % 8), y |-> 20 + 12 * (i \div 8), alive |-> TRUE]
        ELSE ~aliens[i].alive

Max(a, b) == IF a > b THEN a ELSE b
Min(a, b) == IF a < b THEN a ELSE b

\* the player's x after LEFT (-2) and RIGHT (+2) and then the clamp to 0 .. 152
MovedX(x, pad) ==
    Min(152, Max(0, x - (IF BUTTON_LEFT \in pad THEN 2 ELSE 0)
                      + (IF BUTTON_RIGHT \in pad THEN 2 ELSE 0)))

---------------------------------------------------------------------------
\* C1: at the end of every frame (and after start()) aliens_left is the
\* number of alien slots whose alive flag is set.
C1_AliensLeftCountsAlive == aliens_left = AliveCount

\* a second game, in a later wave, with some aliens of the wave shot: kills,
\* next_wave, the game-over reset and the menu start have all acted
C1_Witness ==
    /\ games >= 2
    /\ game_state = GAME_STATE_PLAYING
    /\ current_wave >= 2
    /\ aliens_left < current_alien_rows * current_alien_cols
    /\ aliens_left > 0

\* C2: a frame that begins in Playing ends in Menu if and only if an alive
\* alien's box overlaps the player's box when check_player_collision runs.
C2_MenuIffContact ==
    [][ game_state = GAME_STATE_PLAYING
          => ((game_state' = GAME_STATE_MENU) <=> ContactInFrame) ]_vars

\* the end of a frame of play that ended the game
C2_Witness ==
    /\ game_state = GAME_STATE_MENU
    /\ Emitted(GameOverTone)

\* C3: at the end of a frame in which the contact is detected the game is
\* in Menu with score 0, wave 1, direction +1, timer 20, no bullet and the
\* player at x = 76.
C3_ContactResets ==
    [][ (game_state = GAME_STATE_PLAYING /\ ContactInFrame)
          => /\ game_state' = GAME_STATE_MENU
             /\ score' = 0
             /\ current_wave' = 1
             /\ alien_direction' = 1
             /\ alien_timer' = 20
             /\ ~player_bullet'.active
             /\ player'.x = 76 ]_vars

\* the end of a contact frame in a wave of four rows or more (wave 7 or
\* later, played with a delay of 4)
C3_Witness ==
    /\ game_state = GAME_STATE_MENU
    /\ Emitted(GameOverTone)
    /\ score = 0
    /\ aliens_left >= 32
    /\ current_alien_move_delay = 4

\* C4: at the end of the contact frame exactly the 24 slots of rows 0..2 are
\* alive, at their home positions, and aliens_left = 24.
C4_ContactGridHasThreeRows ==
    (game_state = GAME_STATE_MENU /\ Emitted(GameOverTone))
        => (HomeGrid(3) /\ aliens_left = 24)

\* C5: a frame that begins in Menu ends in Playing if and only if BUTTON_1
\* or the left mouse button is down; the game then starts with score 0, the
\* player at x = 76, no bullet and current_alien_rows full rows of aliens at
\* home, which is one row of 8 on the first start after load.
C5_MenuStart ==
    [][ game_state = GAME_STATE_MENU
          => /\ (game_state' = GAME_STATE_PLAYING)
                  <=> (BUTTON_1 \in gamepad' \/ MOUSE_BUTTON_LEFT \in mouse')
             /\ game_state' = GAME_STATE_PLAYING
                  => /\ score' = 0
                     /\ player'.x = 76
                     /\ ~player_bullet'.active
                     /\ HomeGrid(current_alien_rows)'
                     /\ current_alien_cols' = 8
                     /\ aliens_left' = current_alien_rows * 8
                     /\ (games = 0 => aliens_left' = 8) ]_vars

\* a game started with the mouse after a game over
C5_Witness ==
    /\ game_state = GAME_STATE_PLAYING
    /\ MOUSE_BUTTON_LEFT \in mouse
    /\ games >= 2
    /\ aliens_left = 24

\* C6: next_wave runs exactly in the frames of play that kill the last alive
\* alien; it adds 1 to current_wave, sets alien_direction = +1 and
\* alien_timer = current_alien_move_delay, rebuilds the grid in that frame
\* and adds nothing to the score beyond the kill; current_wave changes in no
\* other frame but that of the game-over reset.
C6_WaveClear ==
    [][ LET cleared == /\ game_state = GAME_STATE_PLAYING
                       /\ AliveCount = 1
                       /\ Emitted(KillTone)'
        IN  /\ cleared <=> WaveStart'
            /\ cleared => /\ current_wave' = current_wave + 1
                          /\ alien_direction' = 1
                          /\ alien_timer' = current_alien_move_delay'
                          /\ score' = score + 10
                          /\ game_state' = GAME_STATE_PLAYING
                          /\ HomeGrid(current_alien_rows)'
                          /\ aliens_left' = current_alien_rows' * 8
            /\ current_wave' # current_wave
                 => \/ cleared
                    \/ /\ game_state = GAME_STATE_PLAYING
                       /\ game_state' = GAME_STATE_MENU
                       /\ current_wave' = 1 ]_vars

\* the end of a frame that cleared the second wave or a later one
C6_Witness ==
    /\ WaveStart
    /\ current_wave >= 3
    /\ score > 0
    /\ aliens_left = current_alien_rows * 8

\* C7: after next_wave current_alien_move_delay = max(4, 20 - 3 * current_wave),
\* and current_alien_move_delay >= 4 in every reachable state.
C7_MoveDelay ==
    /\ WaveStart => current_alien_move_delay = Max(4, 20 - 3 * current_wave)
    /\ current_alien_move_delay >= 4

\* the end of the frame that started wave 7
C7_Witness ==
    /\ WaveStart
    /\ current_wave = 7
    /\ current_alien_move_delay = 4

\* C8: after next_wave current_alien_rows = min(6, (current_wave + 1) div 2)
\* and current_alien_cols = 8; while Playing 1 <= current_alien_rows <= 6 and
\* current_alien_cols = 8.
C8_Formation ==
    /\ WaveStart => /\ current_alien_rows = Min(6, (current_wave + 1) \div 2)
                    /\ current_alien_cols = 8
    /\ game_state = GAME_STATE_PLAYING
         => /\ 1 <= current_alien_rows
            /\ current_alien_rows <= 6
            /\ current_alien_cols = 8

\* the end of the frame that started wave 13, the first whose (wave + 1) div 2
\* exceeds 6
C8_Witness ==
    /\ WaveStart
    /\ current_wave = 13
    /\ current_alien_rows = 6

\* C9: after any frame 0 <= player.x <= 152 and 0 <= player.y <= 152; a frame
\* of play moves x by -2 for LEFT and +2 for RIGHT and then clamps it.
C9_PlayerInBounds ==
    /\ 0 <= player.x /\ player.x <= 152 /\ 0 <= player.y /\ player.y <= 152
    /\ [][ /\ 0 <= player'.x /\ player'.x <= 152
           /\ 0 <= player'.y /\ player'.y <= 152
           /\ (game_state = GAME_STATE_PLAYING /\ game_state' = GAME_STATE_PLAYING)
                => player'.x = MovedX(player.x, gamepad') ]_vars

\* the player pushed against the left edge
C9_Witness ==
    /\ game_state = GAME_STATE_PLAYING
    /\ player.x = 0
    /\ BUTTON_LEFT \in gamepad
    /\ frame > 60

\* C10: in a frame of play a bullet is spawned, with the shot tone, if and
\* only if BUTTON_1 is held and the bullet is inactive at the start of the
\* frame; it is spawned at (x + 3, player.y) for the player's x after the
\* move and the clamp (and has moved up by 4 at the end of the frame); a
\* bullet that is active at the start of a frame keeps its x and only moves
\* up by 4; with BUTTON_1 held over two frames the second one fires as soon
\* as it starts with the bullet inactive.
C10_Fire ==
    [][ game_state = GAME_STATE_PLAYING
          => /\ Emitted(ShotTone)' <=> (BUTTON_1 \in gamepad' /\ ~player_bullet.active)
             /\ Emitted(ShotTone)'
                  => /\ player_bullet'.x = MovedX(player.x, gamepad') + 3
                     /\ player_bullet'.y = player.y - 4
             /\ player_bullet.active
                  => /\ player_bullet'.x = player_bullet.x
                     /\ player_bullet'.y = player_bullet.y - 4
             /\ (~Emitted(ShotTone)' /\ ~player_bullet.active)
                  => /\ ~player_bullet'.active
                     /\ player_bullet'.x = player_bullet.x
                     /\ player_bullet'.y = player_bullet.y
             /\ (BUTTON_1 \in gamepad /\ BUTTON_1 \in gamepad' /\ ~player_bullet.active)
                  => Emitted(ShotTone)' ]_vars

\* a shot fired, with BUTTON_1 still held, in the frame after a hit cleared
\* the bullet
C10_Witness ==
    /\ game_state = GAME_STATE_PLAYING
    /\ Emitted(ShotTone)
    /\ BUTTON_1 \in gamepad
    /\ score >= 20
    /\ player_bullet.active
    /\ player_bullet.x = player.x + 3


---------------------------------------------------------------------------
\* the frames a bullet has flown since the frame that fired it (it ends that
\* frame at y = 136 and rises 4 per frame)
BulletAge == (136 - player_bullet.y) \div 4

\* C11: while the bullet is active in Playing its x never changes and its y
\* decreases by exactly 4 per frame; it is deactivated in the frame in which
\* y becomes < 0 (and, short of a hit or the end of the game, not before), so
\* an active bullet has 0 <= y <= 136 at the end of every frame and is
\* inactive again no later than 40 frames after the frame that fired it.
C11_BulletFlight ==
    /\ ~player_bullet.active
    /\ [][ /\ player_bullet'.active
             => /\ game_state' = GAME_STATE_PLAYING
                /\ 0 <= player_bullet'.y /\ player_bullet'.y <= 136
                /\ player_bullet'.y % 4 = 0
                /\ BulletAge' < 40
           /\ (game_state = GAME_STATE_PLAYING /\ Emitted(ShotTone)') => BulletAge' = 0
           /\ (game_state = GAME_STATE_PLAYING /\ player_bullet.active)
                => /\ player_bullet'.x = player_bullet.x
                   /\ player_bullet'.y = player_bullet.y - 4
                   /\ BulletAge' = BulletAge + 1
                   /\ player_bullet'.y < 0 => ~player_bullet'.active
                   /\ (/\ player_bullet'.y >= 0
                       /\ ~Emitted(KillTone)'
                       /\ game_state' = GAME_STATE_PLAYING) => player_bullet'.active ]_vars

\* the end of the frame in which a bullet that hit nothing left the screen
C11_Witness ==
    /\ game_state = GAME_STATE_PLAYING
    /\ ~player_bullet.active
    /\ player_bullet.y = 0 - 4
    /\ ~Emitted(KillTone)

\* the globals at the moment check_collisions runs in the frame that is
\* played from the current state with the given pad
AtCollisions(pad) ==
    update_aliens(update_player_bullet(update_player(draw_background_stars(State), pad)))

\* the alive aliens whose 8x8 box the 2x4 box of the bullet overlaps, in globals m
Overlapped(m) ==
    {i \in AlienSlots :
        /\ m.aliens[i].alive
        /\ m.player_bullet.x < m.aliens[i].x + 8
        /\ m.player_bullet.x + 2 > m.aliens[i].x
        /\ m.player_bullet.y < m.aliens[i].y + 8
        /\ m.player_bullet.y + 4 > m.aliens[i].y}

\* what check_collisions is to make of globals m, written as the outcome n
KillsLowest(m, n) ==
    IF m.player_bullet.active /\ Overlapped(m) # {}
    THEN \E i \in Overlapped(m) :
           /\ \A k \in Overlapped(m) : i <= k
           /\ n.aliens = [m.aliens EXCEPT ![i].alive = FALSE]
           /\ ~n.player_bullet.active
           /\ n.score = m.score + 10
           /\ n.aliens_left = m.aliens_left - 1
           /\ \E e \in AlienSlots :
                /\ ~m.explosions[e].active
                /\ n.explosions = [m.explosions EXCEPT ![e] =
                       [x |-> m.aliens[i].x, y |-> m.aliens[i].y, life |-> 10, active |-> TRUE]]
    ELSE /\ n.aliens = m.aliens
         /\ n.score = m.score
         /\ n.aliens_left = m.aliens_left
         /\ n.player_bullet = m.player_bullet
         /\ n.explosions = m.explosions

\* C12: in a frame of play check_collisions kills at most one alien: with the
\* bullet active and over at least one alive alien, exactly the lowest-index
\* such alien dies, the bullet becomes inactive, the score grows by 10,
\* aliens_left drops by 1 and an explosion of life 10 is created at the
\* alien's (x, y); otherwise no alien dies and score and aliens_left are
\* left alone.  The kill tone is heard in exactly the frames with a kill.
C12_OneKill ==
    [][ game_state = GAME_STATE_PLAYING
          => \E pad \in {gamepad'} : \E m \in {AtCollisions(pad)} :
               \E n \in {check_collisions(m)} :
                 /\ KillsLowest(m, n)
                 /\ Emitted(KillTone)' <=> (m.player_bullet.active /\ Overlapped(m) # {})
                 /\ (game_state' = GAME_STATE_PLAYING) => score' = n.score ]_vars

\* the end of a frame with a kill: the explosion of life 10 has been aged once
C12_Witness ==
    /\ game_state = GAME_STATE_PLAYING
    /\ Emitted(KillTone)
    /\ ~player_bullet.active
    /\ \E e \in AlienSlots : explosions[e].active /\ explosions[e].life = 9
    /\ \E i \in AlienSlots : ~aliens[i].alive /\ i \div 8 < current_alien_rows

\* C13: every explosion slot has 1 <= life <= 10 when active, and life > 0
\* exactly when active; a frame of play takes one from the life of an active
\* explosion and deactivates it exactly when the life reaches 0.
C13_ExplosionLife ==
    /\ \A e \in AlienSlots : ~explosions[e].active /\ explosions[e].life = 0
    /\ [][ /\ \A e \in AlienSlots :
                /\ explosions'[e].active
                     => (1 <= explosions'[e].life /\ explosions'[e].life <= 10)
                /\ explosions'[e].life > 0 <=> explosions'[e].active
           /\ game_state = GAME_STATE_PLAYING
                => \A e \in AlienSlots :
                     explosions[e].active
                       => /\ explosions'[e].life = explosions[e].life - 1
                          /\ explosions'[e].active <=> (explosions'[e].life # 0)
                          /\ explosions'[e].x = explosions[e].x
                          /\ explosions'[e].y = explosions[e].y ]_vars

\* the end of the frame in which an explosion ran out
C13_Witness ==
    \E e \in AlienSlots :
        /\ ~explosions[e].active
        /\ explosions[e].life = 0
        /\ explosions[e].y > 0


---------------------------------------------------------------------------
JingleC5 == Tone(NOTE_C5, DURATION_EIGHTH, 100, TONE_TRIANGLE)

\* a frame of play that kills the last alive alien
WaveCleared ==
    /\ game_state = GAME_STATE_PLAYING
    /\ AliveCount = 1
    /\ Emitted(KillTone)'

\* C14 as stated: the first note C5 (523 Hz, triangle) is emitted in the
\* frame in which the wave is cleared and next_wave starts the jingle.
C14_C5InClearFrame ==
    [][ WaveCleared => Emitted(JingleC5)' ]_vars

\* C14, amended: next_wave starts the jingle in the frame of the wave clear
\* (cursor 0, timer 0, flag set) but the jingle player has already run in
\* that frame, so no C5 is emitted in it; the C5 is emitted in the frame
\* after the wave clear.
C14_C5InNextFrame ==
    [][ /\ WaveCleared => /\ ~Emitted(JingleC5)'
                          /\ playing_wave_jingle'
                          /\ current_jingle_note_index' = 0
                          /\ jingle_note_timer' = 0
                          /\ game_state' = GAME_STATE_PLAYING
        /\ WaveStart => /\ Emitted(JingleC5)'
                        /\ current_jingle_note_index' = 2
                        /\ jingle_note_timer' = 7 ]_vars

\* the end of the first frame of a new wave: the C5 has just been emitted
C14_Witness ==
    /\ Emitted(JingleC5)
    /\ current_wave >= 2
    /\ current_jingle_note_index = 2
    /\ playing_wave_jingle
    /\ aliens_left = current_alien_rows * 8


---------------------------------------------------------------------------
(* The game left alone: it is started from the menu of a fresh load and    *)
(* no button is touched again.  The host calls update() once per frame,   *)
(* which is the fairness of this specification.                            *)

MaxIdleFrames == 7000    \* frames the untouched game is followed for

\* the menu frame that starts the game, by BUTTON_1 or by the mouse
IdleStart ==
    /\ game_state = GAME_STATE_MENU
    /\ games = 0
    /\ \/ Frame({BUTTON_1}, {})
       \/ Frame({}, {MOUSE_BUTTON_LEFT})
    /\ plan' = "hold"
    /\ games' = 1
    /\ idle' = 0

\* a frame of play with nothing pressed
IdlePlay ==
    /\ game_state = GAME_STATE_PLAYING
    /\ frame < MaxIdleFrames
    /\ Frame({}, {})
    /\ UNCHANGED <<plan, games, idle>>

\* a frame of the menu the lost game returns to, with nothing pressed
IdleMenu ==
    /\ game_state = GAME_STATE_MENU
    /\ games = 1
    /\ idle < MaxMenuIdle
    /\ Frame({}, {})
    /\ plan' = "away"
    /\ idle' = idle + 1
    /\ games' = games

NextIdle == IdleStart \/ IdlePlay \/ IdleMenu

SpecIdle == Init /\ [][NextIdle]_vars /\ WF_vars(NextIdle)

\* C15: the game started from the menu after load and then left alone (the
\* player never moves and never fires) returns to Menu with score 0, and it
\* does so in a frame in which an alive alien's box is over the player's.
C15_IdleGameEnds ==
    /\ (game_state = GAME_STATE_PLAYING)
         ~> (game_state = GAME_STATE_MENU /\ score = 0 /\ games = 1)
    /\ [][ /\ (game_state = GAME_STATE_PLAYING /\ game_state' = GAME_STATE_MENU)
                => ContactInFrame
           /\ (game_state = GAME_STATE_PLAYING /\ game_state' = GAME_STATE_PLAYING)
                => /\ player' = player
                   /\ ~player_bullet'.active
                   /\ \A i \in AlienSlots : aliens'[i].y >= aliens[i].y ]_vars

\* the end of the frame in which the single row of wave 1 reached the player
C15_Witness ==
    /\ game_state = GAME_STATE_MENU
    /\ games = 1
    /\ Emitted(GameOverTone)
    /\ score = 0
    /\ player.x = 76
    /\ current_alien_move_delay = 20


---------------------------------------------------------------------------
\* star i has fallen by min(speed, 2), or has restarted at the top with some
\* x of the screen
StarStepped(i) ==
    /\ stars'[i].speed = stars[i].speed
    /\ \/ /\ stars'[i].y = stars[i].y + Min(stars[i].speed, 2)
          /\ stars'[i].x = stars[i].x
       \/ /\ stars'[i].y = 0
          /\ stars'[i].y # stars[i].y + Min(stars[i].speed, 2)
          /\ 0 <= stars'[i].x /\ stars'[i].x <= 159

\* C16: a Menu frame with neither BUTTON_1 nor the left mouse button down
\* stays in Menu, emits no tone and changes nothing but the stars, each
\* advanced one step, and random_seed (drawn from only when a star restarts).
C16_MenuIdleFrame ==
    [][ (/\ game_state = GAME_STATE_MENU
         /\ BUTTON_1 \notin gamepad'
         /\ MOUSE_BUTTON_LEFT \notin mouse')
          => /\ game_state' = GAME_STATE_MENU
             /\ tones' = << >>
             /\ UNCHANGED <<player, player_bullet, aliens, alien_timer, alien_direction,
                            score, current_wave, explosions, current_jingle_note_index,
                            jingle_note_timer, playing_wave_jingle, aliens_left,
                            current_alien_move_delay, current_alien_rows,
                            current_alien_cols>>
             /\ \A i \in StarSlots : StarStepped(i)
             /\ random_seed' # random_seed
                  => \E i \in StarSlots : stars'[i].y = 0 ]_vars

\* the menu of a game lost in a later wave, after a frame in which only
\* BUTTON_LEFT was down
C16_Witness ==
    /\ game_state = GAME_STATE_MENU
    /\ games >= 1
    /\ idle >= 1
    /\ tones = << >>
    /\ current_alien_move_delay < 20
    /\ BUTTON_LEFT \in gamepad


---------------------------------------------------------------------------
\* C17: in every reachable state every alien slot outside the current
\* formation (row >= current_alien_rows or col >= current_alien_cols, for
\* index = row * 8 + col) has alive = false.
C17_OutsideFormationDead ==
    \A i \in AlienSlots :
        (i \div 8 >= current_alien_rows \/ i % 8 >= current_alien_cols)
            => ~aliens[i].alive

\* a frame of play that neither ends the game nor clears the wave: the
\* aliens it leaves are where update_aliens put them
FrameKeepsGrid ==
    /\ game_state = GAME_STATE_PLAYING
    /\ game_state' = GAME_STATE_PLAYING
    /\ ~WaveCleared

\* some alive alien stands at the edge the formation is moving to
AtEdge ==
    \E i \in AlienSlots :
        /\ aliens[i].alive
        /\ \/ (aliens[i].x >= 152 /\ alien_direction = 1)
           \/ (aliens[i].x <= 0 /\ alien_direction = -1)

\* C18: a formation step does exactly one of two things: with an alive alien
\* at x >= 152 while alien_direction = +1, or at x <= 0 while it is -1, the
\* direction is negated and every slot, alive or dead, gets y + 5 and keeps
\* its x; otherwise every slot gets x + 5 * alien_direction and keeps its y,
\* and the direction stays; dead aliens never trigger the edge; the
\* direction is always -1 or +1.
C18_FormationStep ==
    /\ alien_direction = 1
    /\ [][ /\ alien_direction' \in {-1, 1}
           /\ (FrameKeepsGrid /\ alien_timer <= 1)
                => IF AtEdge
                   THEN /\ alien_direction' = 0 - alien_direction
                        /\ \A i \in AlienSlots : /\ aliens'[i].x = aliens[i].x
                                                 /\ aliens'[i].y = aliens[i].y + 5
                   ELSE /\ alien_direction' = alien_direction
                        /\ \A i \in AlienSlots :
                             /\ aliens'[i].x = aliens[i].x + 5 * alien_direction
                             /\ aliens'[i].y = aliens[i].y ]_vars

\* a dead alien of the formation has been carried past the right edge by a
\* sideways step
C18_Witness ==
    /\ game_state = GAME_STATE_PLAYING
    /\ \E i \in AlienSlots :
         /\ ~aliens[i].alive
         /\ i \div 8 < current_alien_rows
         /\ aliens[i].x > 152
    /\ alien_timer = current_alien_move_delay

\* C19: in Playing alien_timer goes down by 1 every frame; the formation
\* steps exactly in the frames in which it reaches zero and the timer is
\* then reset to current_alien_move_delay; in every other frame no alien's
\* x or y changes; so the steps of a wave are current_alien_move_delay
\* frames apart, and 1 <= alien_timer <= 20 at the end of every frame.
C19_StepTimer ==
    /\ 1 <= alien_timer /\ alien_timer <= 20
    /\ [][ /\ 1 <= alien_timer' /\ alien_timer' <= 20
           /\ FrameKeepsGrid
                => IF alien_timer - 1 = 0
                   THEN /\ alien_timer' = current_alien_move_delay
                        /\ \A i \in AlienSlots :
                             \/ aliens'[i].x # aliens[i].x
                             \/ aliens'[i].y # aliens[i].y
                   ELSE /\ alien_timer' = alien_timer - 1
                        /\ \A i \in AlienSlots :
                             /\ aliens'[i].x = aliens[i].x
                             /\ aliens'[i].y = aliens[i].y
           /\ (game_state = GAME_STATE_PLAYING /\ ~FrameKeepsGrid)
                => alien_timer' = IF WaveCleared THEN current_alien_move_delay' ELSE 20
           /\ current_alien_move_delay' # current_alien_move_delay => WaveCleared ]_vars

\* the end of a frame with a step, in a wave later than the first of a game
C19_Witness ==
    /\ game_state = GAME_STATE_PLAYING
    /\ current_wave >= 3
    /\ alien_timer = current_alien_move_delay
    /\ current_alien_move_delay = 11
    /\ aliens[0].y > 20 + 5


---------------------------------------------------------------------------
\* the jingle as the claim gives it: the notes in Hz (0 for the rest) and
\* the frames counted after each
JingleHz == <<523, 659, 784, 1047, 0>>
JingleFrames == <<7, 7, 15, 30, 7>>
SilenceTone == Tone(0, 0, 0, 0)

\* the notes of the jingle emitted in the frame that led to this state
JingleNotesEmitted ==
    {k \in 1 .. 5 : JingleHz[k] # 0
                    /\ Emitted(Tone(JingleHz[k], JingleFrames[k], 100, TONE_TRIANGLE))}

RECURSIVE JingleTail(_)
\* the frames of play the entries from the k-th on take: one to emit, then the count
JingleTail(k) == IF k > 5 THEN 0 ELSE JingleFrames[k] + 1 + JingleTail(k + 1)

\* the frames of play left until playing_wave_jingle is false again
JingleLeft ==
    IF ~playing_wave_jingle THEN 0
    ELSE jingle_note_timer + JingleTail(current_jingle_note_index \div 2 + 1) + 1

\* C20: once next_wave has started the jingle, the frames of play emit the
\* triangle tones 523, 659, 784, 1047 Hz in this order and nothing for the
\* rest, each entry only when the frames of the entry before it (7, 7, 15,
\* 30, 7) have been counted down; after the last entry one silence tone is
\* emitted and playing_wave_jingle is cleared; the number of frames of play
\* left to that point goes down by one per frame from 72, so it is always
\* reached; afterwards nothing is emitted until the next wave clear.
C20_Jingle ==
    /\ ~playing_wave_jingle
    /\ [][ /\ JingleLeft' <= 72
           /\ game_state = GAME_STATE_MENU
                => /\ UNCHANGED <<playing_wave_jingle, current_jingle_note_index,
                                  jingle_note_timer>>
                   /\ JingleNotesEmitted' = {} /\ ~Emitted(SilenceTone)'
           /\ (game_state = GAME_STATE_PLAYING /\ WaveCleared) => JingleLeft' = 72
           /\ (game_state = GAME_STATE_PLAYING /\ ~WaveCleared)
                => /\ playing_wave_jingle => JingleLeft' = JingleLeft - 1
                   /\ playing_wave_jingle' => playing_wave_jingle
           /\ game_state = GAME_STATE_PLAYING
                => IF ~playing_wave_jingle
                   THEN JingleNotesEmitted' = {} /\ ~Emitted(SilenceTone)'
                   ELSE IF jingle_note_timer > 0
                   THEN /\ JingleNotesEmitted' = {} /\ ~Emitted(SilenceTone)'
                        /\ ~WaveCleared
                             => /\ jingle_note_timer' = jingle_note_timer - 1
                                /\ current_jingle_note_index' = current_jingle_note_index
                   ELSE IF current_jingle_note_index < 10
                   THEN LET k == current_jingle_note_index \div 2 + 1
                        IN  /\ JingleNotesEmitted' = IF JingleHz[k] # 0 THEN {k} ELSE {}
                            /\ ~Emitted(SilenceTone)'
                            /\ ~WaveCleared
                                 => /\ jingle_note_timer' = JingleFrames[k]
                                    /\ current_jingle_note_index' = current_jingle_note_index + 2
                                    /\ playing_wave_jingle'
                   ELSE /\ JingleNotesEmitted' = {}
                        /\ Emitted(SilenceTone)'
                        /\ ~WaveCleared => ~playing_wave_jingle' ]_vars

\* the end of the frame of play in which a jingle emitted its silence tone
C20_Witness ==
    /\ game_state = GAME_STATE_PLAYING
    /\ Emitted(SilenceTone)
    /\ ~playing_wave_jingle
    /\ current_jingle_note_index = 10
    /\ current_wave >= 2


---------------------------------------------------------------------------
\* C21: with playing_wave_jingle set, current_jingle_note_index is even and
\* 0 <= current_jingle_note_index <= 10, the length of the melody; whenever
\* play_wave_jingle reads a (frequency, duration) pair, both indices it
\* reads are inside the 10 entries; jingle_note_timer is never negative.
C21_JingleCursor ==
    /\ playing_wave_jingle
         => /\ current_jingle_note_index % 2 = 0
            /\ 0 <= current_jingle_note_index
            /\ current_jingle_note_index <= 10
    /\ (/\ playing_wave_jingle
        /\ jingle_note_timer <= 0
        /\ current_jingle_note_index < wave_jingle_length)
         => /\ 0 <= current_jingle_note_index
            /\ current_jingle_note_index + 1 <= 10 - 1
    /\ jingle_note_timer >= 0
    /\ wave_jingle_length = 10

\* the jingle with its cursor at the end of the melody and the last count
\* run out: the next frame of play reads nothing and stops it
C21_Witness ==
    /\ game_state = GAME_STATE_PLAYING
    /\ playing_wave_jingle
    /\ current_jingle_note_index = 10
    /\ jingle_note_timer = 0


---------------------------------------------------------------------------
\* C22: after start() and after every frame every star has 0 <= x <= 159,
\* 0 <= y <= 159 and a speed in 1..3 that never changes; each frame a star's
\* y grows by min(speed, 2), and when the new y exceeds 159 the star wraps to
\* y = 0 with a new x in 0..159.
C22_StarsOnScreen ==
    /\ \A i \in StarSlots :
         /\ 0 <= stars[i].x /\ stars[i].x <= 159
         /\ 0 <= stars[i].y /\ stars[i].y <= 159
         /\ stars[i].speed \in 1 .. 3
    /\ [][ \A i \in StarSlots :
             /\ stars'[i].speed = stars[i].speed
             /\ 0 <= stars'[i].x /\ stars'[i].x <= 159
             /\ 0 <= stars'[i].y /\ stars'[i].y <= 159
             /\ IF stars[i].y + Min(stars[i].speed, 2) > 159
                THEN stars'[i].y = 0
                ELSE /\ stars'[i].y = stars[i].y + Min(stars[i].speed, 2)
                     /\ stars'[i].x = stars[i].x ]_vars


---------------------------------------------------------------------------
(* random_int on its own: the generator is called again and again, from    *)
(* seed 1 and from a few other seeds, with the five ranges the game uses.  *)

MaxCalls == 300          \* calls of random_int followed from each seed

\* the (min, max) of the calls in init_stars, draw_background_stars and
\* draw_explosions
RandomRanges == {<<0, 159>>, <<1, 3>>, <<0 - 2, 2>>, <<0 - 3, 3>>, <<0 - 1, 1>>}

\* the seed of the loaded program, and seeds at the ends and in the middle
\* of the 31 bits
SeedSamples == {1, 0, 65535, 65536, 1073741823, 1073741824, 2147483646, 2147483647}

InitRandom ==
    \E seed \in SeedSamples : \E s \in {[Loaded EXCEPT !.random_seed = seed]} :
        /\ player = s.player
        /\ player_bullet = s.player_bullet
        /\ aliens = s.aliens
        /\ stars = s.stars
        /\ game_state = s.game_state
        /\ alien_direction = s.alien_direction
        /\ alien_timer = s.alien_timer
        /\ current_alien_move_delay = s.current_alien_move_delay
        /\ score = s.score
        /\ random_seed = s.random_seed
        /\ aliens_left = s.aliens_left
        /\ current_wave = s.current_wave
        /\ current_alien_rows = s.current_alien_rows
        /\ current_alien_cols = s.current_alien_cols
        /\ explosions = s.explosions
        /\ current_jingle_note_index = s.current_jingle_note_index
        /\ jingle_note_timer = s.jingle_note_timer
        /\ playing_wave_jingle = s.playing_wave_jingle
        /\ tones = s.tones
        /\ gamepad = {}
        /\ mouse = {}
        /\ frame = 0
        /\ plan = "none"
        /\ games = 0
        /\ idle = 0

\* one call random_int(min, max); frame counts the calls
RandomCall ==
    /\ frame < MaxCalls
    /\ \E rg \in RandomRanges :
         random_seed' = random_int(random_seed, rg[1], rg[2]).seed
    /\ frame' = frame + 1
    /\ UNCHANGED <<player, player_bullet, aliens, stars, game_state, alien_direction,
                   alien_timer, current_alien_move_delay, score, aliens_left,
                   current_wave, current_alien_rows, current_alien_cols, explosions,
                   current_jingle_note_index, jingle_note_timer, playing_wave_jingle,
                   gamepad, mouse, tones, plan, games, idle>>

SpecRandom == InitRandom /\ [][RandomCall]_vars

MaxSeed == 2147483647    \* 0x7fffffff

\* a + b modulo 2^31, for a and b in 0 .. 2^31 - 1, without leaving 32 bits
AddMod31(a, b) == IF a > MaxSeed - b THEN (a - (MaxSeed - b)) - 1 ELSE a + b

RECURSIVE MulMod31(_, _)
\* a * n modulo 2^31 by doubling
MulMod31(a, n) ==
    IF n = 0 THEN 0
    ELSE CHOOSE p \in {IF n % 2 = 1 THEN AddMod31(a, h) ELSE h :
                         h \in {MulMod31(d, n \div 2) : d \in {AddMod31(a, a)}}} : TRUE

\* ((seed * 1103515245 + 12345) mod 2^32) & 0x7fffffff, which is the sum
\* modulo 2^31
LcgReference(seed) == AddMod31(MulMod31(seed, 1103515245), 12345)

\* C23: random_int(min, max) replaces random_seed by
\* ((random_seed * 1103515245 + 12345) mod 2^32) & 0x7fffffff and returns
\* min + (random_seed mod (max - min + 1)); for each of the ranges the game
\* uses the result lies in min..max, and random_seed stays in 0 .. 2^31 - 1.
C23_RandomInt ==
    /\ 0 <= random_seed /\ random_seed <= MaxSeed
    /\ [][ /\ random_seed' = LcgReference(random_seed)
           /\ 0 <= random_seed' /\ random_seed' <= MaxSeed
           /\ \A rg \in RandomRanges :
                \E r \in {random_int(random_seed, rg[1], rg[2])} :
                  /\ r.seed = random_seed'
                  /\ r.value = rg[1] + (random_seed' % (rg[2] - rg[1] + 1))
                  /\ rg[1] <= r.value
                  /\ r.value <= rg[2] ]_vars

\* the first call from seed 1: 1103515245 + 12345
C23_Witness ==
    /\ frame = 1
    /\ random_seed = 1103527590


---------------------------------------------------------------------------
(* The player who opens a gap and hides in it: in the first game, whose    *)
(* wave is one row of eight, the first shot from x = 76 kills the alien of *)
(* column 4; the player then stops firing and stays under the dead slot,   *)
(* which moves with the formation.  Once the row has passed the player the *)
(* pad is given over to any set of buttons, held from then on.             *)

MaxDodgeFrames == 8500   \* frames the hiding player is followed for

\* the pad of the hiding player: fire until column 4 is open, then steer
\* three pixels ahead of the dead slot without firing
DodgePad ==
    IF aliens[4].alive THEN {BUTTON_1}
    ELSE LET want == aliens[4].x + 3 * alien_direction
         IN  (IF player.x < want - 1 THEN {BUTTON_RIGHT} ELSE {})
               \cup (IF ~(player.x < want - 1) /\ player.x > want + 1 THEN {BUTTON_LEFT} ELSE {})

\* every alive alien is at y >= 148: check_player_collision needs
\* a_y < p_y + 8 = 148, and the bullet, which starts at y = 140, needs
\* a_y < b_y + 4 <= 140
BelowPlayer ==
    /\ game_state = GAME_STATE_PLAYING
    /\ \A i \in AlienSlots : aliens[i].alive => aliens[i].y >= player.y + 8

\* the menu frame that starts the game
DodgeStart ==
    /\ game_state = GAME_STATE_MENU
    /\ games = 0
    /\ Frame({BUTTON_1}, {})
    /\ plan' = "dodge"
    /\ games' = 1
    /\ idle' = 0

\* a frame of play of the hiding player
DodgePlay ==
    /\ game_state = GAME_STATE_PLAYING
    /\ plan = "dodge"
    /\ frame < MaxDodgeFrames
    /\ Frame(DodgePad, {})
    /\ UNCHANGED <<plan, games, idle>>

\* the frame after the step that took the row past the player: the player
\* changes to any set of buttons
DodgeRelease ==
    /\ plan = "dodge"
    /\ BelowPlayer
    /\ alien_timer = current_alien_move_delay
    /\ \A i \in AlienSlots : aliens[i].alive => aliens[i].y < player.y + 8 + 5
    /\ frame < MaxDodgeFrames
    /\ \E pad \in SUBSET {BUTTON_1, BUTTON_LEFT, BUTTON_RIGHT} : Frame(pad, {})
    /\ plan' = "hold"
    /\ UNCHANGED <<games, idle>>

\* a frame of play with the buttons kept down
DodgeHeld ==
    /\ game_state = GAME_STATE_PLAYING
    /\ plan = "hold"
    /\ frame < MaxDodgeFrames
    /\ Frame(gamepad, {})
    /\ UNCHANGED <<plan, games, idle>>

NextDodge == DodgeStart \/ DodgePlay \/ DodgeRelease \/ DodgeHeld

SpecDodge == Init /\ [][NextDodge]_vars

\* C24: the current wave always ends, by next_wave or by contact; Playing
\* never goes on for ever within one wave.  Stated on states: in every
\* reachable Playing state the wave can still end, that is, some alive alien
\* is still above y = 148, where the bullet or the player's box can meet it
\* (the aliens never move up).
C24_WaveCanEnd ==
    game_state = GAME_STATE_PLAYING
      => \E i \in AlienSlots : aliens[i].alive /\ aliens[i].y < player.y + 8

\* once every alive alien is below the player the game stays so whatever is
\* pressed: still Playing, the same wave, the same aliens alive
DeadEndStays ==
    [][ BelowPlayer =>
          /\ BelowPlayer'
          /\ current_wave' = current_wave
          /\ aliens_left' = aliens_left
          /\ score' = score
          /\ \A i \in AlienSlots : aliens'[i].y >= aliens[i].y ]_vars

\* the hiding player fires and moves in the dead end
DeadEndTried ==
    ~(BelowPlayer /\ player_bullet.active /\ frame = MaxDodgeFrames)


\* C25: in every reachable state current_alien_move_delay is 20 when
\* current_wave is 1 and max(4, 20 - 3 * current_wave) when current_wave is 2
\* or more; a game started again after a contact plays wave 1 with delay 20.
C25_DelayOfWave ==
    /\ current_wave = 1 => current_alien_move_delay = 20
    /\ current_wave >= 2 => current_alien_move_delay = Max(4, 20 - 3 * current_wave)


\* the active slots of an explosion pool
ActiveExplosions(pool) == {e \in AlienSlots : pool[e].active}

\* C26: the explosion pool is never exhausted: whenever create_explosion is
\* called at least one of the 48 slots is inactive, so every kill produces an
\* explosion, at the place of the alien killed; at most 10 slots are active
\* at any time, between frames and within a frame.  What keeps the number
\* down: between frames the active explosions have lives in 1..9, no two the
\* same.
C26_ExplosionPool ==
    /\ Cardinality(ActiveExplosions(explosions)) <= EXPLOSION_DURATION
    /\ [][ \A e \in ActiveExplosions(explosions') :
             /\ 1 <= explosions'[e].life
             /\ explosions'[e].life <= EXPLOSION_DURATION - 1
             /\ \A f \in ActiveExplosions(explosions') :
                  explosions'[f].life = explosions'[e].life => f = e ]_vars
    /\ [][ game_state = GAME_STATE_PLAYING =>
             \E pad \in {gamepad'} : \E m \in {AtCollisions(pad)} :
             \E n \in {check_collisions(m)} :
               /\ Cardinality(ActiveExplosions(n.explosions)) <= EXPLOSION_DURATION
               /\ Cardinality(ActiveExplosions(explosions')) <= EXPLOSION_DURATION
               /\ (m.player_bullet.active /\ Overlapped(m) # {}) =>
                    /\ ActiveExplosions(m.explosions) # AlienSlots
                    /\ Cardinality(ActiveExplosions(n.explosions))
                         = Cardinality(ActiveExplosions(m.explosions)) + 1
                    /\ \E i \in Overlapped(m) : \E e \in AlienSlots :
                         /\ ~m.explosions[e].active
                         /\ explosions'[e].active
                         /\ explosions'[e].x = m.aliens[i].x
                         /\ explosions'[e].y = m.aliens[i].y ]_vars

\* the end of a frame with a kill while an earlier explosion is still active
C26_Witness ==
    /\ game_state = GAME_STATE_PLAYING
    /\ Emitted(KillTone)
    /\ Cardinality(ActiveExplosions(explosions)) >= 2


====
